---- MODULE Spec2Model ----
(***************************************************************************)
(* The shopping-cart widget of src/src/shopping-cart/index.tsx: the delta  *)
(* reconciler (the effect of App that merges toolOutput into widgetState), *)
(* its change-detection guard (lastToolOutputRef) and the quantity         *)
(* adjuster (adjustQuantity).                                              *)
(*                                                                         *)
(* JavaScript values.  An object is a function from its own keys to their  *)
(* values; an absent (undefined) field is a key outside DOMAIN.  An array  *)
(* is tagged, so that [] and {} differ and Array.isArray can be computed.  *)
(* Key insertion order of objects is not represented.                      *)
(***************************************************************************)
EXTENDS Integers, Sequences, FiniteSets, TLC

VARIABLES
    toolOutput,         \* window.openai.toolOutput as last delivered (line 60)
    widgetState,        \* window.openai.widgetState as the component sees it (line 61)
    cartState,          \* the useWidgetState handle: the last value written (line 62)
    lastToolOutputRef,  \* lastToolOutputRef.current (line 98)
    pendingEcho,        \* a write was issued that the host has not echoed yet
    lastOp,             \* the handler that ran last and the branch it took
    delivered           \* SpecReplay's log: the tool outputs delivered, with the branch taken

vars == <<toolOutput, widgetState, cartState, lastToolOutputRef, pendingEcho, lastOp,
          delivered>>

(***************************************************************************)
(* Bounds of the model.                                                    *)
(***************************************************************************)
MaxQuantity == 2    \* adjustQuantity is not taken beyond this quantity
MaxLen == 2         \* length of the item lists drawn as inputs
MaxDeliveries == 3  \* tool outputs delivered in a run of SpecReplay

(***************************************************************************)
(* Values                                                                  *)
(***************************************************************************)
Null == [null |-> TRUE]
EmptyObject == [k \in {} |-> TRUE]
Array(s) == [isArray |-> TRUE, elems |-> s]
NotArray == [isArray |-> FALSE, elems |-> <<>>]
Has(obj, k) == k \in DOMAIN obj
Item2(n, q) == [name |-> n, quantity |-> q]
Item3(n, q, c) == [name |-> n, quantity |-> q, color |-> c]

\* { ...a, ...b }
Spread(a, b) ==
    [k \in (DOMAIN a) \cup (DOMAIN b) |-> IF k \in DOMAIN b THEN b[k] ELSE a[k]]

\* Array.isArray(x?.items) ? x.items : []
ItemsOrEmpty(obj) ==
    IF obj # Null /\ Has(obj, "items") /\ obj["items"].isArray
    THEN obj["items"].elems
    ELSE <<>>

\* a test for the presence of the field only: the empty name passes
HasNamePresent(item) == Has(item, "name")

\* item?.name as a condition: present and not the empty string
HasName(item) == Has(item, "name") /\ item["name"] # ""

createDefaultCartState == [items |-> Array(<<>>)]

(***************************************************************************)
(* JSON.stringify(toolOutput), lines 109-116.  A payload holding a         *)
(* reference to itself (key "self") makes JSON.stringify throw.            *)
(***************************************************************************)
Quote(s) == "\"" \o s \o "\""

RECURSIVE Join(_)
Join(strs) ==
    IF strs = <<>> THEN ""
    ELSE IF Len(strs) = 1 THEN strs[1]
    ELSE strs[1] \o "," \o Join(Tail(strs))

FieldJson(item, k) ==
    Quote(k) \o ":" \o (IF k = "quantity" THEN ToString(item[k]) ELSE Quote(item[k]))

ItemJson(item) ==
    LET present == SelectSeq(<<"name", "quantity", "color">>, LAMBDA k : Has(item, k))
    IN  "{" \o Join([i \in 1..Len(present) |-> FieldJson(item, present[i])]) \o "}"

ItemsJson(v) ==
    IF v.isArray
    THEN "[" \o Join([i \in 1..Len(v.elems) |-> ItemJson(v.elems[i])]) \o "]"
    ELSE Quote("none")

StringifyThrows(value) == Has(value, "self")

JsonStringify(value) ==
    IF Has(value, "string") THEN Quote(value["string"])
    ELSE IF Has(value, "items") THEN "{" \o Quote("items") \o ":" \o ItemsJson(value["items"]) \o "}"
    ELSE "{}"

ToolOutputUnset == "__tool_output_unset__"
ToolOutputError == "__tool_output_error__"

\* the catch answering the sentinel of the unset ref
serializedToolOutputErrorAsUnset(value) ==
    IF StringifyThrows(value) THEN ToolOutputUnset ELSE JsonStringify(value)

serializedToolOutput(value) ==
    IF StringifyThrows(value) THEN ToolOutputError ELSE JsonStringify(value)

(***************************************************************************)
(* The merge of the effect, lines 124-151.  itemsByName is a Map: a        *)
(* sequence of entries in insertion order; set() on a key already present  *)
(* replaces the value and keeps the entry's position.                      *)
(***************************************************************************)
MapHas(m, k) == \E i \in 1..Len(m) : m[i].key = k

MapGet(m, k) ==
    IF MapHas(m, k)
    THEN m[CHOOSE i \in 1..Len(m) : m[i].key = k].value
    ELSE EmptyObject    \* spreading undefined adds nothing

\* a Map that never finds the key: every set() appends
MapSetAppends(m, k, v) == Append(m, [key |-> k, value |-> v])

\* a set() that deletes the key and appends it: an updated entry moves to the end
MapSetMovesToEnd(m, k, v) ==
    Append(SelectSeq(m, LAMBDA e : e.key # k), [key |-> k, value |-> v])

MapSet(m, k, v) ==
    IF MapHas(m, k)
    THEN [i \in 1..Len(m) |-> IF m[i].key = k THEN [key |-> k, value |-> v] ELSE m[i]]
    ELSE Append(m, [key |-> k, value |-> v])

MapValues(m) == [i \in 1..Len(m) |-> m[i].value]

incomingItems(output) == ItemsOrEmpty(output)

\* the base taken as it is, without the default for an absent state
baseStateAsIs(state) == state

baseState(state) == IF state = Null THEN createDefaultCartState ELSE state

baseItems(state) == ItemsOrEmpty(baseState(state))

\* the Map left unseeded: the base items are forgotten
SeedBaseNothing(m, items) == m

\* a seeding that keeps every base item, named or not
RECURSIVE SeedBaseUnfiltered(_, _)
SeedBaseUnfiltered(m, items) ==
    IF items = <<>> THEN m
    ELSE LET item == Head(items)
             key  == IF Has(item, "name") THEN item["name"] ELSE "undefined"
         IN  SeedBaseUnfiltered(MapSet(m, key, item), Tail(items))

RECURSIVE SeedBase(_, _)
SeedBase(m, items) ==
    IF items = <<>> THEN m
    ELSE LET item == Head(items)
         IN  SeedBase(IF HasName(item) THEN MapSet(m, item["name"], item) ELSE m,
                      Tail(items))

\* the spread the wrong way round: existing fields win
MergedItemExistingWins(existing, item) == Spread(item, existing)

\* a merge that takes the incoming quantity as an amount to add
MergedItemSumsQuantity(existing, item) ==
    IF Has(existing, "quantity") /\ Has(item, "quantity")
    THEN Spread(Spread(existing, item),
                [quantity |-> existing["quantity"] + item["quantity"]])
    ELSE Spread(existing, item)

MergedItem(existing, item) == Spread(existing, item)

RECURSIVE MergeIncoming(_, _)
MergeIncoming(m, items) ==
    IF items = <<>> THEN m
    ELSE LET item == Head(items)
         IN  MergeIncoming(IF HasName(item)
                           THEN MapSet(m, item["name"],
                                       MergedItem(MapGet(m, item["name"]), item))
                           ELSE m,
                           Tail(items))

itemsByName(state, output) ==
    MergeIncoming(SeedBase(<<>>, baseItems(state)), incomingItems(output))

nextItems(state, output) == MapValues(itemsByName(state, output))

\* a next state made of the items alone
mergeNextStateItemsOnly(state, output) == [items |-> Array(nextItems(state, output))]

mergeNextState(state, output) ==
    Spread(baseState(state), [items |-> Array(nextItems(state, output))])

(***************************************************************************)
(* adjustQuantity's updater, lines 71-95.  Indexes are 1-based; findIndex  *)
(* answers -1 when no item matches.                                        *)
(***************************************************************************)
findIndex(items, name) ==
    LET hits == {i \in 1..Len(items) : Has(items[i], "name") /\ items[i]["name"] = name}
    IN  IF hits = {} THEN -1 ELSE CHOOSE i \in hits : \A j \in hits : i <= j

Max(a, b) == IF a >= b THEN a ELSE b

\* the quantity without its floor at zero
nextQuantityNoFloor(current, delta) ==
    (IF Has(current, "quantity") THEN current["quantity"] ELSE 0) + delta

nextQuantity(current, delta) ==
    Max(0, (IF Has(current, "quantity") THEN current["quantity"] ELSE 0) + delta)

Splice(items, idx) ==
    [i \in 1..(Len(items) - 1) |-> IF i < idx THEN items[i] ELSE items[i + 1]]

\* the adjusted item built anew from its name and quantity: other fields are lost
adjustedItemsRebuilt(items, idx, delta) ==
    IF nextQuantity(items[idx], delta) = 0
    THEN Splice(items, idx)
    ELSE [items EXCEPT ![idx] = Item2(items[idx]["name"],
                                      nextQuantity(items[idx], delta))]

adjustedItems(items, idx, delta) ==
    IF nextQuantity(items[idx], delta) = 0
    THEN Splice(items, idx)
    ELSE [items EXCEPT ![idx] = Spread(items[idx],
                                       [quantity |-> nextQuantity(items[idx], delta)])]

\* an updater that adds the item it does not find
adjustNextStateUpsert(prevState, name, delta) ==
    LET base  == IF prevState = Null THEN EmptyObject ELSE prevState
        items == ItemsOrEmpty(base)
        idx   == findIndex(items, name)
    IN  IF idx = -1
        THEN Spread(base, [items |-> Array(Append(items, Item2(name, Max(0, delta))))])
        ELSE Spread(base, [items |-> Array(adjustedItems(items, idx, delta))])

adjustNextState(prevState, name, delta) ==
    LET base  == IF prevState = Null THEN EmptyObject ELSE prevState
        items == ItemsOrEmpty(base)
        idx   == findIndex(items, name)
    IN  IF idx = -1 THEN base
        ELSE Spread(base, [items |-> Array(adjustedItems(items, idx, delta))])

adjustPath(prevState, name, delta) ==
    LET items == ItemsOrEmpty(prevState)
        idx   == findIndex(items, name)
    IN  IF name = "" \/ delta = 0 THEN "ignored"
        ELSE IF idx = -1 THEN "missing"
        ELSE IF nextQuantity(items[idx], delta) = 0 THEN "removed"
        ELSE "updated"

(***************************************************************************)
(* Inputs.  Items as tool outputs and earlier turns can hold them: with    *)
(* or without a name, a quantity, an extra field.                          *)
(***************************************************************************)
DeltaItems ==
    { Item2("a", 2), Item3("a", 1, "blue"), [name |-> "a", color |-> "red"],
      Item2("b", 1), Item2("b", 0), [quantity |-> 2], Item2("", 1) }

BaseItems ==
    { Item2("a", 1), Item3("a", 1, "red"), Item3("b", 2, "blue"), [name |-> "b"],
      Item2("b", -1), [quantity |-> 1], Item2("", 1) }

SeqsUpTo(S, n) == UNION { [1..k -> S] : k \in 0..n }

Cyclic(items) == [items |-> Array(items), self |-> "[Circular]"]

\* every tool output the one-step specification delivers
AllToolOutputs ==
    {Null, EmptyObject, [items |-> NotArray],
     [string |-> ToolOutputError], [string |-> ToolOutputUnset],
     Cyclic(<<Item2("a", 2)>>), Cyclic(<<Item2("b", 1)>>)}
    \cup { [items |-> Array(s)] : s \in SeqsUpTo(DeltaItems, MaxLen) }

\* the tool outputs the widget is sent in Spec
ToolOutputs ==
    {Null, EmptyObject, [items |-> NotArray], [string |-> ToolOutputError],
     Cyclic(<<Item2("a", 2)>>), Cyclic(<<Item2("b", 1)>>),
     [items |-> Array(<<Item2("a", 2)>>)],
     [items |-> Array(<<Item3("a", 1, "blue"), Item2("b", 1)>>)],
     [items |-> Array(<<Item2("b", 0)>>)],
     [items |-> Array(<<[quantity |-> 2], Item2("", 1)>>)]}

\* the widget state of a first load: absent, or an empty cart
FreshCarts ==
    {Null, createDefaultCartState, [cartId |-> "c1", items |-> Array(<<>>)]}

\* every widget state an earlier turn may have left
AllCarts ==
    {Null, EmptyObject, [cartId |-> "c1"], [items |-> NotArray]}
    \cup { [items |-> Array(s)] : s \in SeqsUpTo(BaseItems, MaxLen) }
    \cup { [cartId |-> "c1", items |-> Array(s)] : s \in SeqsUpTo(BaseItems, MaxLen) }

AdjustNames == {"", "a", "b"}
AdjustDeltas == -2..2

(***************************************************************************)
(* The host channel and the hooks (use-openai-global, use-widget-state).   *)
(***************************************************************************)
\* useWidgetState(createDefaultCartState): the host's state, else the default
initialCartState(state) == IF state = Null THEN createDefaultCartState ELSE state

InitWith(carts) ==
    /\ toolOutput = Null
    /\ widgetState \in carts
    /\ cartState = initialCartState(widgetState)
    /\ lastToolOutputRef = ToolOutputUnset
    /\ pendingEcho = FALSE
    /\ lastOp = [kind |-> "init", path |-> "init"]
    /\ delivered = <<>>

Init == InitWith(FreshCarts)

\* setCartState(next): the handle takes the value and the host is sent it
setCartState(next) ==
    /\ cartState' = next
    /\ pendingEcho' = TRUE

(***************************************************************************)
(* The effect, lines 100-157, run with `output` as toolOutput and `state`  *)
(* as the widgetState of the render that scheduled it.                     *)
(***************************************************************************)
\* the fingerprint never remembered
rememberedFingerprintUnset(output) == ToolOutputUnset

\* lastToolOutputRef.current = serializedToolOutput, line 122
rememberedFingerprint(output) == serializedToolOutput(output)

\* a guard that remembers every fingerprint it has merged, not the last one only
effectPathRemembersAll(output) ==
    IF output = Null THEN "null"
    ELSE IF \/ serializedToolOutput(output) = lastToolOutputRef
            \/ \E i \in 1..Len(delivered) :
                  /\ delivered[i].path = "merged"
                  /\ serializedToolOutput(delivered[i].output) = serializedToolOutput(output)
         THEN "skipped"
    ELSE "merged"

\* the effect without the comparison of lines 118-121
effectPathUnguarded(output) == IF output = Null THEN "null" ELSE "merged"

effectPath(output) ==
    IF output = Null THEN "null"
    ELSE IF serializedToolOutput(output) = lastToolOutputRef THEN "skipped"
    ELSE "merged"

\* an effect whose early return for null also forgets the fingerprint
useEffectNullForgets(kind, output, state) ==
    /\ lastOp' = [kind |-> kind, path |-> effectPath(output)]
    /\ IF effectPath(output) = "merged"
       THEN /\ lastToolOutputRef' = rememberedFingerprint(output)
            /\ setCartState(mergeNextState(state, output))
       ELSE /\ lastToolOutputRef' = IF output = Null THEN ToolOutputUnset
                                    ELSE lastToolOutputRef
            /\ UNCHANGED <<cartState, pendingEcho>>

useEffect(kind, output, state) ==
    /\ lastOp' = [kind |-> kind, path |-> effectPath(output)]
    /\ IF effectPath(output) = "merged"
       THEN /\ lastToolOutputRef' = rememberedFingerprint(output)
            /\ setCartState(mergeNextState(state, output))
       ELSE UNCHANGED <<lastToolOutputRef, cartState, pendingEcho>>

\* the host delivers a tool output
Notify(output) ==
    /\ toolOutput' = output
    /\ UNCHANGED widgetState
    /\ useEffect("notify", output, widgetState)

\* the host echoes the last write: widgetState changes, toolOutput is delivered again
Echo ==
    /\ pendingEcho
    /\ widgetState' = cartState
    /\ UNCHANGED toolOutput
    /\ lastOp' = [kind |-> "echo", path |-> effectPath(toolOutput)]
    /\ IF effectPath(toolOutput) = "merged"
       THEN /\ lastToolOutputRef' = rememberedFingerprint(toolOutput)
            /\ setCartState(mergeNextState(widgetState', toolOutput))
       ELSE /\ pendingEcho' = FALSE
            /\ UNCHANGED <<lastToolOutputRef, cartState>>

\* an adjustment computed from the widgetState of the last render, not from
\* the updater's prevState
AdjustQuantityFromSnapshot(name, delta) ==
    /\ lastOp' = [kind |-> "adjust", path |-> adjustPath(baseState(widgetState), name, delta)]
    /\ IF name = "" \/ delta = 0
       THEN UNCHANGED <<cartState, pendingEcho>>
       ELSE setCartState(adjustNextState(baseState(widgetState), name, delta))
    /\ UNCHANGED <<toolOutput, widgetState, lastToolOutputRef>>

\* adjustQuantity(name, delta), lines 65-96
AdjustQuantity(name, delta) ==
    /\ adjustPath(cartState, name, delta) = "updated"
          => nextQuantity(ItemsOrEmpty(cartState)[findIndex(ItemsOrEmpty(cartState), name)],
                          delta) <= MaxQuantity
    /\ lastOp' = [kind |-> "adjust", path |-> adjustPath(cartState, name, delta)]
    /\ IF name = "" \/ delta = 0
       THEN UNCHANGED <<cartState, pendingEcho>>
       ELSE setCartState(adjustNextState(cartState, name, delta))
    /\ UNCHANGED <<toolOutput, widgetState, lastToolOutputRef>>

Next ==
    \/ \E output \in ToolOutputs : Notify(output) /\ UNCHANGED delivered
    \/ Echo /\ UNCHANGED delivered
    \/ \E name \in AdjustNames, delta \in AdjustDeltas :
          AdjustQuantity(name, delta) /\ UNCHANGED delivered

Spec == Init /\ [][Next]_vars

(***************************************************************************)
(* One operation applied to any widget state an earlier turn may have      *)
(* left: the reconciler and the adjuster as functions of their inputs.     *)
(***************************************************************************)
InitOneStep == InitWith(AllCarts)

NextOneStep ==
    \/ /\ lastOp.kind = "init"
       /\ \E output \in AllToolOutputs : Notify(output)
       /\ UNCHANGED delivered
    \/ /\ lastOp.kind = "init"
       /\ \E name \in AdjustNames, delta \in AdjustDeltas : AdjustQuantity(name, delta)
       /\ UNCHANGED delivered

SpecOneStep == InitOneStep /\ [][NextOneStep]_vars

(***************************************************************************)
(* Runs of a few deliveries of two tool outputs and of null, from a first  *)
(* load, with the deliveries logged: sequences such as A, B, A.            *)
(***************************************************************************)
ReplayOutputs ==
    {Null,
     [items |-> Array(<<Item2("a", 2)>>)],
     [items |-> Array(<<Item3("a", 1, "blue"), Item2("b", 1)>>)]}

NextReplay ==
    \/ \E output \in ReplayOutputs :
          /\ Len(delivered) < MaxDeliveries
          /\ Notify(output)
          /\ delivered' = Append(delivered, [output |-> output, path |-> lastOp'.path])
    \/ Echo /\ UNCHANGED delivered
    \/ \E name \in AdjustNames, delta \in AdjustDeltas :
          AdjustQuantity(name, delta) /\ UNCHANGED delivered

SpecReplay == Init /\ [][NextReplay]_vars

(***************************************************************************)
(* Properties                                                              *)
(***************************************************************************)
Items(state) == ItemsOrEmpty(state)

\* C1: a tool output delivered right after one with the same serialized value is
\* skipped: no merge, no write, the cart and the remembered fingerprint stay; a
\* tool output that serializes differently from the one before it is merged
\* into the cart and written.
C1_ChangeDetectionSuppression ==
    [][(lastOp'.kind = "notify" /\ toolOutput # Null /\ toolOutput' # Null) =>
          IF serializedToolOutput(toolOutput') = serializedToolOutput(toolOutput)
          THEN /\ lastOp'.path = "skipped"
               /\ cartState' = cartState
               /\ pendingEcho' = pendingEcho
               /\ lastToolOutputRef' = lastToolOutputRef
          ELSE /\ lastOp'.path = "merged"
               /\ pendingEcho'
               /\ lastToolOutputRef' = serializedToolOutput(toolOutput')
               /\ \A i \in 1..Len(Items(toolOutput')) :
                     HasName(Items(toolOutput')[i]) =>
                        \E j \in 1..Len(Items(cartState')) :
                           Items(cartState')[j]["name"] = Items(toolOutput')[i]["name"]
      ]_vars

\* C1 witness: a tool output with items was delivered a second time and skipped,
\* with no write waiting to be echoed.
C1_Witness ==
    /\ lastOp = [kind |-> "notify", path |-> "skipped"]
    /\ Items(toolOutput) # <<>>
    /\ ~pendingEcho

\* C2: whenever the reconciler merges, the cart it writes is the merge of the
\* tool output into the most recently written cart (cartState), so no earlier
\* write is lost.
C2_MergesIntoLatestWrite ==
    [][lastOp'.path = "merged" => cartState' = mergeNextState(cartState, toolOutput')]_vars

\* C3: the echo of a write, delivered while the tool output is still the one
\* already merged, is skipped: no merge, no write, and the cart keeps the value
\* the user's adjustment gave it.
C3_EchoIsNotANewDelta ==
    [][(lastOp'.kind = "echo" /\ toolOutput # Null) =>
          /\ lastOp'.path = "skipped"
          /\ cartState' = cartState
          /\ widgetState' = cartState
          /\ lastToolOutputRef' = lastToolOutputRef
          /\ ~pendingEcho'
      ]_vars

\* C3 witness: the tool output sets a's quantity to 2, the user lowered it to 1,
\* and the write has been echoed with a's quantity still 1.
C3_Witness ==
    /\ lastOp = [kind |-> "echo", path |-> "skipped"]
    /\ toolOutput = [items |-> Array(<<Item2("a", 2)>>)]
    /\ cartState = [items |-> Array(<<Item2("a", 1)>>)]
    /\ widgetState = cartState

\* C4: no item of the cart (as written, and as echoed by the host) has quantity 0.
C4_NoZeroQuantityAtRest ==
    \A state \in {cartState, widgetState} :
       \A i \in 1..Len(Items(state)) :
          Has(Items(state)[i], "quantity") => Items(state)[i]["quantity"] # 0

\* C5: starting from an empty or absent cart, the items of the cart (as written,
\* and as echoed by the host) all carry a name and no two carry the same one.
C5_UniqueNames ==
    \A state \in {cartState, widgetState} :
       \A i, j \in 1..Len(Items(state)) :
          /\ Has(Items(state)[i], "name")
          /\ (i # j => Items(state)[i]["name"] # Items(state)[j]["name"])

\* C5 witness: a merge of a tool output naming an item already in the cart left
\* two items in the cart.
C5_Witness ==
    /\ lastOp.path = "merged"
    /\ Len(Items(cartState)) = 2
    /\ Len(Items(widgetState)) >= 1
    /\ \E i \in 1..Len(Items(toolOutput)) :
          \E j \in 1..Len(Items(widgetState)) :
             /\ HasName(Items(toolOutput)[i])
             /\ Items(widgetState)[j]["name"] = Items(toolOutput)[i]["name"]

(***************************************************************************)
(* The reconciler and the adjuster as functions.  In SpecOneStep the base  *)
(* of the one merge is widgetState (Notify leaves it as it was), the delta *)
(* is toolOutput and the result is cartState.                              *)
(***************************************************************************)
NamesIn(items) == { items[i]["name"] : i \in {j \in 1..Len(items) : Has(items[j], "name")} }

AllNamed(items) == \A i \in 1..Len(items) : HasName(items[i])

NoNameTwice(items) ==
    \A i, j \in 1..Len(items) :
       (i # j /\ Has(items[i], "name") /\ Has(items[j], "name"))
          => items[i]["name"] # items[j]["name"]

\* C6: when every base item and delta item has a non-empty name and no delta
\* name repeats, the names of the merged cart are exactly the names of the base
\* and of the delta together, each once.
C6_MergeUnion ==
    (/\ lastOp = [kind |-> "notify", path |-> "merged"]
     /\ AllNamed(Items(widgetState))
     /\ AllNamed(Items(toolOutput))
     /\ NoNameTwice(Items(toolOutput)))
    => /\ NamesIn(Items(cartState)) = NamesIn(Items(widgetState)) \cup NamesIn(Items(toolOutput))
       /\ AllNamed(Items(cartState))
       /\ NoNameTwice(Items(cartState))

\* C6 witness: a base holding a and b once each and a delta naming only b.
C6_Witness ==
    /\ lastOp = [kind |-> "notify", path |-> "merged"]
    /\ Len(Items(widgetState)) = 2
    /\ AllNamed(Items(widgetState)) /\ NoNameTwice(Items(widgetState))
    /\ NamesIn(Items(toolOutput)) = {"b"}
    /\ Len(Items(toolOutput)) = 1
    /\ NamesIn(Items(cartState)) = {"a", "b"}

\* C7: for a name held once by the base and once by the delta, the merged item
\* has the fields of both: each field of the incoming item with the incoming
\* value, each other field of the base item with the base value.
C7_FieldPrecedence ==
    lastOp = [kind |-> "notify", path |-> "merged"] =>
       \A i \in 1..Len(Items(widgetState)), j \in 1..Len(Items(toolOutput)) :
          LET b == Items(widgetState)[i]
              d == Items(toolOutput)[j]
          IN  (/\ HasName(b) /\ HasName(d) /\ b["name"] = d["name"]
               /\ Cardinality({k \in 1..Len(Items(widgetState)) :
                      Has(Items(widgetState)[k], "name")
                      /\ Items(widgetState)[k]["name"] = b["name"]}) = 1
               /\ Cardinality({k \in 1..Len(Items(toolOutput)) :
                      Has(Items(toolOutput)[k], "name")
                      /\ Items(toolOutput)[k]["name"] = d["name"]}) = 1)
              => \E r \in 1..Len(Items(cartState)) :
                    LET item == Items(cartState)[r]
                    IN  /\ item["name"] = d["name"]
                        /\ DOMAIN item = (DOMAIN b) \cup (DOMAIN d)
                        /\ \A k \in DOMAIN d : item[k] = d[k]
                        /\ \A k \in (DOMAIN b) \ (DOMAIN d) : item[k] = b[k]

\* C7 witness: the base holds {a, 1, red}, the delta {a, 2}, the cart {a, 2, red}.
C7_Witness ==
    /\ lastOp = [kind |-> "notify", path |-> "merged"]
    /\ Items(widgetState) = <<Item3("a", 1, "red")>>
    /\ Items(toolOutput) = <<Item2("a", 2)>>
    /\ Items(cartState) = <<Item3("a", 2, "red")>>

\* C8: merging the same delta into the result of a merge gives that result again.
C8_Idempotence ==
    lastOp = [kind |-> "notify", path |-> "merged"] =>
       mergeNextState(cartState, toolOutput) = cartState

\* C8 witness: a merge that changed an item the base already held.
C8_Witness ==
    /\ lastOp = [kind |-> "notify", path |-> "merged"]
    /\ NamesIn(Items(widgetState)) \cap NamesIn(Items(toolOutput)) # {}
    /\ widgetState # Null
    /\ cartState # widgetState
    /\ Len(Items(cartState)) = Len(Items(widgetState))

\* the first position of an item named `name`, 0 when there is none
FirstNamed(items, name) ==
    IF \E i \in 1..Len(items) : Has(items[i], "name") /\ items[i]["name"] = name
    THEN CHOOSE i \in 1..Len(items) :
            /\ Has(items[i], "name") /\ items[i]["name"] = name
            /\ \A j \in 1..(i - 1) : ~(Has(items[j], "name") /\ items[j]["name"] = name)
    ELSE 0

\* C9: an adjustment by a non-zero delta of an item the cart holds gives it the
\* quantity max(0, current + delta), a missing current quantity counting as 0;
\* at 0 the item leaves the list, otherwise the item has the new quantity; no
\* quantity written by an adjustment is negative.
C9_QuantityFloorAndDeletion ==
    [][\A name \in AdjustNames, delta \in AdjustDeltas :
          (/\ AdjustQuantity(name, delta)
           /\ name # "" /\ delta # 0
           /\ FirstNamed(Items(cartState), name) # 0)
          => LET items   == Items(cartState)
                 idx     == FirstNamed(items, name)
                 current == IF Has(items[idx], "quantity") THEN items[idx]["quantity"] ELSE 0
                 next    == IF current + delta > 0 THEN current + delta ELSE 0
             IN  IF next = 0
                 THEN /\ Len(Items(cartState')) = Len(items) - 1
                      /\ \A i \in 1..(Len(items) - 1) :
                            Items(cartState')[i] = items[IF i < idx THEN i ELSE i + 1]
                 ELSE /\ Len(Items(cartState')) = Len(items)
                      /\ Items(cartState')[idx]["name"] = name
                      /\ Items(cartState')[idx]["quantity"] = next
                      /\ next > 0
      ]_vars

\* C9 witness: the cart held b without a quantity; after an adjustment b has a
\* positive quantity, counted up from 0.
C9_Witness ==
    /\ lastOp = [kind |-> "adjust", path |-> "updated"]
    /\ Items(widgetState) = <<[name |-> "b"]>>
    /\ Len(Items(cartState)) = 1
    /\ Items(cartState)[1]["quantity"] \in {1, 2}

\* C10: an adjustment with an empty name, with delta 0, or of a name no item of
\* the cart has, leaves the cart as it was: no item is created.
C10_AdjustNoOps ==
    [][\A name \in AdjustNames, delta \in AdjustDeltas :
          (/\ AdjustQuantity(name, delta)
           /\ \/ name = ""
              \/ delta = 0
              \/ FirstNamed(Items(cartState), name) = 0)
          => cartState' = cartState
      ]_vars

\* C10 witness: an adjustment found no item of its name in a cart that holds
\* items, and the cart is the one the turn started with.
C10_Witness ==
    /\ lastOp = [kind |-> "adjust", path |-> "missing"]
    /\ Len(Items(cartState)) >= 1
    /\ cartState = widgetState

\* a tool output was merged whose items, one at least, all lack a name
NamelessDeltaMerged ==
    /\ lastOp = [kind |-> "notify", path |-> "merged"]
    /\ Items(toolOutput) # <<>>
    /\ \A i \in 1..Len(Items(toolOutput)) :
          ~Has(Items(toolOutput)[i], "name") \/ Items(toolOutput)[i]["name"] = ""

\* the base is a cart as the data model describes it: a list of items, each
\* with a non-empty name, no name twice
WellFormedCart(state) ==
    /\ state # Null
    /\ Has(state, "items")
    /\ state["items"].isArray
    /\ \A i \in 1..Len(Items(state)) :
          Has(Items(state)[i], "name") /\ Items(state)[i]["name"] # ""
    /\ NoNameTwice(Items(state))

\* C11 (as claimed): for every base cart, merging items without a name gives
\* what merging no items gives, and that leaves the items of the base cart (none,
\* when the cart is absent or holds no list) unchanged.
C11_DropMalformedAnyBase ==
    NamelessDeltaMerged =>
       /\ cartState = mergeNextState(widgetState, [items |-> Array(<<>>)])
       /\ Items(cartState) = Items(widgetState)

\* C11 (amended): for every base cart, merging items without a name gives what
\* merging no items gives; that is the base cart unchanged when the base is a
\* list of items with non-empty names, none twice.
C11_DropMalformed ==
    NamelessDeltaMerged =>
       /\ cartState = mergeNextState(widgetState, [items |-> Array(<<>>)])
       /\ WellFormedCart(widgetState) => cartState = widgetState

\* C11 witness: two nameless items were merged into a cart of two named items,
\* which is written back as it was.
C11_Witness ==
    /\ NamelessDeltaMerged
    /\ Len(Items(toolOutput)) = 2
    /\ WellFormedCart(widgetState)
    /\ Len(Items(widgetState)) = 2
    /\ cartState = widgetState

\* the top-level fields of a cart other than items
OtherFields(state) == (DOMAIN state) \ {"items"}

\* C12: a reconciliation and an adjustment leave every top-level field of the
\* cart other than items as it was: the same fields, with the same values.
C12_TopLevelPassThrough ==
    [][lastOp'.path \in {"merged", "missing", "removed", "updated"} =>
          /\ OtherFields(cartState') = OtherFields(cartState)
          /\ \A k \in OtherFields(cartState) : cartState'[k] = cartState[k]
      ]_vars

\* C12 witness: a cart with a cartId whose items a merge changed.
C12_Witness ==
    /\ lastOp = [kind |-> "notify", path |-> "merged"]
    /\ Has(cartState, "cartId") /\ cartState["cartId"] = "c1"
    /\ Has(widgetState, "cartId")
    /\ Items(cartState) # Items(widgetState)

\* a value that holds no list of items
NoItemList(value) == value = Null \/ ~Has(value, "items") \/ ~value["items"].isArray

NamedItems(items) ==
    SelectSeq(items, LAMBDA item : Has(item, "name") /\ item["name"] # "")

\* C13: a tool output without a list of items is merged as one with no items; an
\* absent cart, or one without a list of items, is merged into as an empty
\* cart: the result holds exactly the named items of the delta (no name twice
\* in it), and for an absent cart it is nothing but those items.
C13_MalformedInputIsEmpty ==
    lastOp = [kind |-> "notify", path |-> "merged"] =>
       /\ NoItemList(toolOutput) =>
             cartState = mergeNextState(widgetState, [items |-> Array(<<>>)])
       /\ (NoItemList(widgetState) /\ NoNameTwice(Items(toolOutput))) =>
             /\ Has(cartState, "items") /\ cartState["items"].isArray
             /\ Items(cartState) = NamedItems(Items(toolOutput))
       /\ (widgetState = Null /\ NoNameTwice(Items(toolOutput))) =>
             cartState = [items |-> Array(NamedItems(Items(toolOutput)))]

\* C13 witness: a delta of two named items merged into an absent cart.
C13_Witness ==
    /\ lastOp = [kind |-> "notify", path |-> "merged"]
    /\ widgetState = Null
    /\ Len(Items(toolOutput)) = 2
    /\ Items(cartState) = Items(toolOutput)

\* C14: a tool output that cannot be serialized is remembered as the error
\* sentinel, and delivered again right away it is skipped (no merge, no write);
\* the fingerprint remembered for a tool output that can be serialized is never
\* the error sentinel nor the unset sentinel.
C14_ErrorSentinel ==
    [][(lastOp'.kind = "notify" /\ toolOutput' # Null) =>
          IF StringifyThrows(toolOutput')
          THEN /\ lastToolOutputRef' = ToolOutputError
               /\ toolOutput' = toolOutput =>
                     /\ lastOp'.path = "skipped"
                     /\ cartState' = cartState
                     /\ pendingEcho' = pendingEcho
          ELSE /\ lastToolOutputRef' # ToolOutputError
               /\ lastToolOutputRef' # ToolOutputUnset
      ]_vars

\* C14 witness: a tool output that cannot be serialized was skipped, its items
\* being in the cart from its first delivery.
C14_Witness ==
    /\ lastOp = [kind |-> "notify", path |-> "skipped"]
    /\ StringifyThrows(toolOutput)
    /\ lastToolOutputRef = ToolOutputError
    /\ Items(cartState) = Items(toolOutput)

\* C15: an adjustment is computed from the cart as last written (cartState), not
\* from an older snapshot: every item it does not adjust is in the cart it
\* writes, and the quantity it writes is the last written quantity plus delta.
C15_AdjustReadsCurrentCart ==
    [][\A name \in AdjustNames, delta \in AdjustDeltas :
          (AdjustQuantity(name, delta) /\ name # "" /\ delta # 0)
          => LET items == Items(cartState)
                 idx   == FirstNamed(items, name)
             IN  /\ \A i \in 1..Len(items) :
                       i # idx => \E j \in 1..Len(Items(cartState')) :
                                     Items(cartState')[j] = items[i]
                 /\ idx # 0 =>
                       LET current == IF Has(items[idx], "quantity")
                                      THEN items[idx]["quantity"] ELSE 0
                       IN  current + delta > 0 =>
                              \E j \in 1..Len(Items(cartState')) :
                                 /\ Items(cartState')[j]["name"] = name
                                 /\ Items(cartState')[j]["quantity"] = current + delta
      ]_vars

\* C15 witness: a merge wrote two items into an empty cart and, before the host
\* echoed that write, an adjustment changed one of them and kept the other.
C15_Witness ==
    /\ lastOp = [kind |-> "adjust", path |-> "updated"]
    /\ pendingEcho
    /\ Items(widgetState) = <<>>
    /\ Len(Items(toolOutput)) = 2
    /\ Len(Items(cartState)) = 2
    /\ Items(cartState) # Items(toolOutput)

\* the non-empty names of a list of items, each once, in the order in which
\* they first occur
RECURSIVE NamesInOrder(_, _)
NamesInOrder(items, seen) ==
    IF items = <<>> THEN <<>>
    ELSE LET item == Head(items)
         IN  IF Has(item, "name") /\ item["name"] # "" /\ item["name"] \notin seen
             THEN <<item["name"]>> \o NamesInOrder(Tail(items), seen \cup {item["name"]})
             ELSE NamesInOrder(Tail(items), seen)

\* C16: the merged items are the named base items in their order (an updated
\* item in its base position), then the names new to the cart in the order in
\* which the delta first has them.
C16_ResultOrder ==
    lastOp = [kind |-> "notify", path |-> "merged"] =>
       LET base  == NamesInOrder(Items(widgetState), {})
           fresh == NamesInOrder(Items(toolOutput),
                                 {base[i] : i \in 1..Len(base)})
       IN  /\ Len(Items(cartState)) = Len(base) + Len(fresh)
           /\ \A i \in 1..Len(Items(cartState)) :
                 Items(cartState)[i]["name"] = (base \o fresh)[i]

\* C16 witness: the base holds a then b, the delta updates a, and the result
\* holds the updated a first and b as it was.
C16_Witness ==
    /\ lastOp = [kind |-> "notify", path |-> "merged"]
    /\ NamesInOrder(Items(widgetState), {}) = <<"a", "b">>
    /\ Len(Items(widgetState)) = 2
    /\ NamesInOrder(Items(toolOutput), {}) = <<"a">>
    /\ Len(Items(cartState)) = 2
    /\ Items(cartState)[1] # Items(widgetState)[1]
    /\ Items(cartState)[2] = Items(widgetState)[2]

\* C17: an adjustment changes only the item it names.  With a positive next
\* quantity the item keeps its position and all its fields but quantity; in
\* every case the other items keep their fields and their order.
C17_AdjustFrame ==
    [][\A name \in AdjustNames, delta \in AdjustDeltas :
          (/\ AdjustQuantity(name, delta)
           /\ name # "" /\ delta # 0
           /\ FirstNamed(Items(cartState), name) # 0)
          => LET items   == Items(cartState)
                 after   == Items(cartState')
                 idx     == FirstNamed(items, name)
                 current == IF Has(items[idx], "quantity") THEN items[idx]["quantity"] ELSE 0
             IN  IF current + delta > 0
                 THEN /\ Len(after) = Len(items)
                      /\ \A i \in 1..Len(items) : i # idx => after[i] = items[i]
                      /\ DOMAIN after[idx] = (DOMAIN items[idx]) \cup {"quantity"}
                      /\ \A k \in (DOMAIN items[idx]) \ {"quantity"} :
                            after[idx][k] = items[idx][k]
                 ELSE /\ Len(after) = Len(items) - 1
                      /\ \A i \in 1..Len(after) :
                            after[i] = items[IF i < idx THEN i ELSE i + 1]
      ]_vars

\* C17 witness: of two items the second, which has a color, was given a new
\* quantity and kept its color; the first is as it was.
C17_Witness ==
    /\ lastOp = [kind |-> "adjust", path |-> "updated"]
    /\ Len(Items(widgetState)) = 2
    /\ Len(Items(cartState)) = 2
    /\ Items(cartState)[1] = Items(widgetState)[1]
    /\ Items(widgetState)[2] = Item3("a", 1, "red")
    /\ Items(cartState)[2] = Item3("a", 2, "red")

\* C18: a delivery of null does nothing: no merge, no write, the remembered
\* fingerprint stays; so in a sequence A, null, A the second A is skipped.
C18_NullKeepsFingerprint ==
    [][lastOp'.kind = "notify" =>
          /\ toolOutput' = Null =>
                /\ lastOp'.path = "null"
                /\ cartState' = cartState
                /\ pendingEcho' = pendingEcho
                /\ lastToolOutputRef' = lastToolOutputRef
          /\ (/\ Len(delivered') >= 3
              /\ delivered'[Len(delivered')].output # Null
              /\ delivered'[Len(delivered') - 1].output = Null
              /\ delivered'[Len(delivered') - 2].output = delivered'[Len(delivered')].output)
             => /\ lastOp'.path = "skipped"
                /\ cartState' = cartState
                /\ pendingEcho' = pendingEcho
      ]_vars

\* C18 witness: a tool output, null, the same tool output again: skipped.
C18_Witness ==
    /\ Len(delivered) = 3
    /\ delivered[1].output = [items |-> Array(<<Item2("a", 2)>>)]
    /\ delivered[2].output = Null
    /\ delivered[3].output = delivered[1].output
    /\ lastOp = [kind |-> "notify", path |-> "skipped"]

\* the last tool output other than null delivered before the latest delivery
LastBefore(log) ==
    LET earlier == {i \in 1..(Len(log) - 1) : log[i].output # Null}
    IN  log[CHOOSE i \in earlier : \A j \in earlier : j <= i].output

\* C19: a tool output delivered again after a tool output with another
\* fingerprint is merged and written again: each of its items is in the cart
\* with every field at the incoming value, whatever the user or the other tool
\* output set in between.
C19_OnlyLastFingerprintRemembered ==
    [][(/\ lastOp'.kind = "notify"
        /\ toolOutput' # Null
        /\ \E i \in 1..(Len(delivered') - 1) : delivered'[i].output = toolOutput'
        /\ serializedToolOutput(LastBefore(delivered')) # serializedToolOutput(toolOutput'))
       => /\ lastOp'.path = "merged"
          /\ pendingEcho'
          /\ \A i \in 1..Len(Items(toolOutput')) :
                \E j \in 1..Len(Items(cartState')) :
                   /\ Items(cartState')[j]["name"] = Items(toolOutput')[i]["name"]
                   /\ \A k \in DOMAIN Items(toolOutput')[i] :
                         Items(cartState')[j][k] = Items(toolOutput')[i][k]
      ]_vars

\* C19 witness: A = {a: 2}, B = {a: 1 blue, b: 1}, then A again, merged: a has
\* A's quantity and the color B gave it.
C19_Witness ==
    /\ Len(delivered) = 3
    /\ delivered[1].output = [items |-> Array(<<Item2("a", 2)>>)]
    /\ delivered[2].output = [items |-> Array(<<Item3("a", 1, "blue"), Item2("b", 1)>>)]
    /\ delivered[3] = [output |-> delivered[1].output, path |-> "merged"]
    /\ lastOp = [kind |-> "notify", path |-> "merged"]
    /\ Items(cartState) = <<Item3("a", 2, "blue"), Item2("b", 1)>>

\* an item the reconciler does not carry: its name is missing or empty
Nameless(item) == ~Has(item, "name") \/ item["name"] = ""

\* C20: a merge filters the base cart too: every item of the cart it writes
\* has a non-empty name, and a base cart that holds a nameless item is not
\* written back unchanged: the nameless items are gone from the result, also
\* when the tool output carries no items.
C20_BaseIsFiltered ==
    lastOp = [kind |-> "notify", path |-> "merged"] =>
        /\ \A i \in 1..Len(Items(cartState)) : ~Nameless(Items(cartState)[i])
        /\ (\E i \in 1..Len(Items(widgetState)) : Nameless(Items(widgetState)[i]))
           => /\ cartState # widgetState
              /\ Items(cartState) # Items(widgetState)

\* C20 witness: a tool output with an empty item list merged into a cart of
\* one named and one nameless item leaves the named item only.
C20_Witness ==
    /\ lastOp = [kind |-> "notify", path |-> "merged"]
    /\ toolOutput = [items |-> Array(<<>>)]
    /\ Items(widgetState) = <<[quantity |-> 1], Item2("a", 1)>>
    /\ Items(cartState) = <<Item2("a", 1)>>

====
